---- MODULE Spec2Model ----
(***************************************************************************)
(* Vector-store ingestion and similarity search of open-intelligence:      *)
(* FileSearchTool (server/api/vector_stores/files/service.py) and the      *)
(* vector-store endpoints (server/api/vector_stores/handler.py).           *)
(***************************************************************************)
EXTENDS Integers, Sequences, FiniteSets, TLC

(***************************************************************************)
(* Bounds of the model.                                                    *)
(***************************************************************************)
\* number of ingest requests (create_vector_store_file calls) in a run
MaxTasks == 2
\* largest top_k a search request carries
MaxTopK == 3
\* number of sentences of the longest text that is chunked
MaxSentences == 6
\* largest max_chunk_size_tokens and chunk_overlap_tokens that are tried
MaxChunkSize == 3
MaxOverlap == 4
\* number of coroutines that call the Embedding Provider
MaxCallers == 2
\* number of embeddings each of them asks for
MaxCalls == 3
\* the smallest distances (in units of 1/One) the score function is tried on
MaxDistSamples == 16
\* rows in a table that is listed, and the largest limit asked for
MaxRows == 3
MaxLimit == 3

(***************************************************************************)
(* Program constants.                                                      *)
(***************************************************************************)
\* embeddings.reshape(-1, 768): the dimension of the embedding model
EmbeddingDim == 768
\* astype(np.float32): bytes per embedding component
Float32Bytes == 4
\* np.float32: bits of the significand (one implicit)
SigBits == 24

(***************************************************************************)
(* np.float32 arithmetic of  float(1 / (1 + distance)).                    *)
(* A float32 x in [0, 8) that is a multiple of 2^-(SigBits+2) is held as   *)
(* the integer x * One.                                                    *)
(***************************************************************************)
One == 2 ^ (SigBits + 2)

\* n rounded to a multiple of q, ties to the even multiple (IEEE 754 default)
RoundHalfEven(n, q) ==
    LET lo == (n \div q) * q
        r  == n - lo
    IN  IF 2 * r < q THEN lo
        ELSE IF 2 * r > q THEN lo + q
        ELSE IF (lo \div q) % 2 = 0 THEN lo ELSE lo + q

\* the spacing of float32 values around x (x held as x * One, x >= 1/8)
Ulp(x) ==
    IF x >= 4 * One THEN 32
    ELSE IF x >= 2 * One THEN 16
    ELSE IF x >= One THEN 8
    ELSE IF 2 * x >= One THEN 4
    ELSE IF 4 * x >= One THEN 2
    ELSE 1

\* np.float32 addition 1 + d
F32OnePlus(d) == RoundHalfEven(One + d, Ulp(One + d))

\* <<q, r>> with 2^e = q * x + r and 0 <= r < x, for x > 2, by long division
\* two bits at a time
RECURSIVE Pow2DivMod(_, _)
Pow2DivMod(e, x) ==
    IF e = 0 THEN <<0, 1>>
    ELSE IF e = 1 THEN <<0, 2>>
    ELSE LET p  == Pow2DivMod(e - 2, x)
             r4 == 4 * p[2]
         IN  <<4 * p[1] + (r4 \div x), r4 % x>>

\* 2^e / x rounded to an integer, ties to even
Pow2DivRound(e, x) ==
    LET p == Pow2DivMod(e, x)
    IN  IF 2 * p[2] < x THEN p[1]
        ELSE IF 2 * p[2] > x THEN p[1] + 1
        ELSE IF p[1] % 2 = 0 THEN p[1] ELSE p[1] + 1

\* np.float32 division 1 / x for x in [1, 8)
F32Recip(x) ==
    IF x = One THEN One
    ELSE IF x <= 2 * One THEN 4 * Pow2DivRound(2 * SigBits + 2, x)
    ELSE IF x <= 4 * One THEN 2 * Pow2DivRound(2 * SigBits + 3, x)
    ELSE Pow2DivRound(2 * SigBits + 4, x)

\* the mutant of Score: a linear similarity 1 - d
ScoreLinear(d) == One - d

\* score=float(1 / (1 + distance)), as a multiple of 1/One
Score(d) == F32Recip(F32OnePlus(d))

(***************************************************************************)
(* Inputs: vector stores, uploaded files and the texts they hold.          *)
(***************************************************************************)
Stores == {"vs1", "vs2"}

\* A text: head is its first max_length (8192) tokens, tail what follows them.
TextA     == [head |-> "a", tail |-> ""]
TextALong == [head |-> "a", tail |-> "x"]
TextB     == [head |-> "b", tail |-> ""]
TextC     == [head |-> "c", tail |-> ""]
Texts == {TextA, TextALong, TextB, TextC}

\* uploaded files (FileObject ids)
Files == {"f_abc", "f_long", "f_empty"}

\* self.chunking_strategy.chunk("".join(doc.extract_text())) of each file
Segments(f) ==
    CASE f = "f_abc"  -> <<TextA, TextB, TextC>>
      [] f = "f_long" -> <<TextALong>>
      [] OTHER        -> <<>>

\* total_bytes = len(obj.body) of each uploaded file
FileBytes(f) ==
    CASE f = "f_abc"  -> 60
      [] f = "f_long" -> 9000
      [] OTHER        -> 0

Tasks == 1..MaxTasks

\* FileSearchTool.file_id: uuid.uuid4() of the tool built for each request
Uuids == <<"u1", "u2", "u3", "u4">>
ToolId(t) == Uuids[t]

\* ids a caller can name in a file endpoint
FileIds == Files \cup {ToolId(t) : t \in Tasks}

(***************************************************************************)
(* Embedding Provider: worker.compute_text_embedding.                      *)
(***************************************************************************)
\* tokenizer(text, truncation=True, max_length=8192): the tail is cut off
Tokenize(text) == text.head

\* the text model followed by F.normalize(p=2, dim=1): unit vectors
Model(tokens) ==
    CASE tokens = "a" -> <<1, 0>>
      [] tokens = "b" -> <<0, 1>>
      [] OTHER        -> <<-1, 0>>

ComputeTextEmbedding(text) == Model(Tokenize(text))

\* chunk.embedding.nbytes of a float32 vector of the model's dimension
EmbeddingNbytes == EmbeddingDim * Float32Bytes

(***************************************************************************)
(* State.                                                                  *)
(***************************************************************************)
VARIABLES
    chunks,     \* Chunk Store: FileObjectDocumentChunk objects, in insertion order
    vsFileDocs, \* Chunk Store: VectorStoreFileDocument objects put by upsert
    records,    \* relational store: VectorStoreFile rows, by id
    tasks,      \* the ingest requests: position and locals of each
    out,        \* the response of the handler that returned last
    probe,      \* the pure functions' own specifications: input and result
    vectorStores, \* relational store: VectorStore rows, by id
    fileObjects,  \* relational store: FileObject rows, by id
    storage,      \* object storage: the objects of the bucket, by key
    deletion      \* the delete_vector_store request: the await it is at

vars == <<chunks, vsFileDocs, records, tasks, out, probe,
               vectorStores, fileObjects, storage, deletion>>

NoOut == [op |-> "none"]
NoProbe == [op |-> "none"]
NoRecord == [present |-> FALSE]
NoDeletion == [pc |-> "idle", store |-> "vs1"]

\* id_ = str(uuid.uuid4()) of the uploads
UploadIds == {"id1", "id2"}

\* status: Literal[...] = Field(default="in_progress")
DefaultStatusCompleted == "completed"
DefaultStatus == "in_progress"

\* The event loop runs one callback at a time: a handler runs from one await to
\* the next, and the response it returns is handed over before another runs.
Running == out = NoOut

IdleTask ==
    [pc |-> "idle", store |-> "vs1", file |-> "f_empty", count |-> 0,
     usage_bytes |-> 0, issued |-> 0, status_log |-> <<>>,
     last_error |-> "null", raised |-> "none"]

Init ==
    /\ chunks = <<>>
    /\ vsFileDocs = {}
    /\ records = [f \in Files |-> NoRecord]
    /\ tasks = [t \in Tasks |-> IdleTask]
    /\ out = NoOut
    /\ vectorStores = [v \in Stores |-> NoRecord]
    /\ fileObjects = [id \in UploadIds |-> NoRecord]
    /\ storage = {}
    /\ deletion = NoDeletion
    /\ probe = NoProbe

(***************************************************************************)
(* Ingestion: create_vector_store_file -> FileSearchTool.upsert.           *)
(* A task's pc names the await it is suspended at.                         *)
(***************************************************************************)
\* vs_file.status: the status assigned last
Status(task) ==
    IF task.status_log = <<>> THEN "none"
    ELSE task.status_log[Len(task.status_log)]

\* The handler has ended: its locals are gone. What is kept is how it ended
\* and the status the VectorStoreFileDocument had when it was dropped.
Ended(task, how, what) ==
    [IdleTask EXCEPT !.pc = how, !.raised = what,
                     !.status_log = task.status_log,
                     !.last_error = task.last_error]

\* the mutant of Resume: the embeddings of all segments are requested at once
ResumeAllAtOnce(task) ==
    IF task.count < Len(Segments(task.file))
    THEN [task EXCEPT !.pc = "embed", !.issued = Len(Segments(task.file))]
    ELSE [task EXCEPT !.pc = "save", !.status_log = Append(@, "completed")]

\* text_upsert's for loop up to its next await: chunk() yields the next
\* segment and its embedding is requested, or the loop ends and upsert marks
\* the file completed and awaits vs_file.put
Resume(task) ==
    IF task.count < Len(Segments(task.file))
    THEN [task EXCEPT !.pc = "embed", !.issued = @ + 1]
    ELSE [task EXCEPT !.pc = "save", !.status_log = Append(@, "completed")]

\* the mutant of Raise: the failed segment is skipped and the loop goes on
RaiseAndGoOn(task, what) ==
    IF task.pc \in {"embed", "put"}
    THEN Resume([task EXCEPT !.count = @ + 1, !.raised = what])
    ELSE Ended(task, "error", what)

\* the mutant of Raise: the file is marked failed and no error is kept
RaiseMarksFailed(task, what) ==
    Ended([task EXCEPT !.status_log = Append(@, "failed")], "error", what)

\* an exception leaves upsert and the handler: nothing catches it
Raise(task, what) == Ended(task, "error", what)

\* vs_file = VectorStoreFileDocument(...); count = 0
NewVsFile(v, f) ==
    [pc |-> "start", store |-> v, file |-> f, count |-> 0, usage_bytes |-> 0,
     issued |-> 0, status_log |-> <<DefaultStatus>>, last_error |-> "null",
     raised |-> "none"]

\* POST /vector_stores/{vector_store_id}/files up to upsert's first await
StartIngest(t, v, f) ==
    /\ Running
    /\ tasks[t].pc = "idle"
    /\ \A u \in Tasks : u < t => tasks[u].pc # "idle"
    /\ tasks' = [tasks EXCEPT ![t] = Resume(NewVsFile(v, f))]
    /\ out' = NoOut
    /\ UNCHANGED <<chunks, vsFileDocs, records, probe,
               vectorStores, fileObjects, storage, deletion>>

\* POST /vector_stores/{vector_store_id}/files when extract_text() or chunk()
\* raises at the loop's first step (an unsupported file, a sentence model that
\* does not load)
StartFail(t, v, f) ==
    /\ Running
    /\ tasks[t].pc = "idle"
    /\ \A u \in Tasks : u < t => tasks[u].pc # "idle"
    /\ tasks' = [tasks EXCEPT ![t] = Raise(NewVsFile(v, f), "chunking")]
    /\ out' = NoOut
    /\ UNCHANGED <<chunks, vsFileDocs, records, probe,
               vectorStores, fileObjects, storage, deletion>>

\* the mutant of AddUsage: the size of the vector is counted in components
AddUsageComponents(usage) == usage + EmbeddingDim

\* vs_file.usage_bytes += chunk.embedding.nbytes
AddUsage(usage) == usage + EmbeddingNbytes

\* await worker.compute_text_embedding(chunk) returns; the chunk is yielded,
\* its bytes are added and chunk.put is awaited
EmbedDone(t) ==
    /\ Running
    /\ tasks[t].pc = "embed"
    /\ tasks' = [tasks EXCEPT ![t] =
                    [@ EXCEPT !.pc = "put", !.usage_bytes = AddUsage(@)]]
    /\ out' = NoOut
    /\ UNCHANGED <<chunks, vsFileDocs, records, probe,
               vectorStores, fileObjects, storage, deletion>>

\* await worker.compute_text_embedding(chunk) raises
EmbedFail(t) ==
    /\ Running
    /\ tasks[t].pc = "embed"
    /\ tasks' = [tasks EXCEPT ![t] = Raise(@, "embedding")]
    /\ out' = NoOut
    /\ UNCHANGED <<chunks, vsFileDocs, records, probe,
               vectorStores, fileObjects, storage, deletion>>

\* FileObjectDocumentChunk(embedding=..., content=chunk, file_id=self.file_id,
\* vector_store_id=self.vector_store_id) of the task's current segment
NewChunk(t) ==
    LET text == Segments(tasks[t].file)[tasks[t].count + 1]
    IN  [id |-> <<t, tasks[t].count + 1>>,
         vector_store_id |-> tasks[t].store,
         file_id |-> ToolId(t),
         content |-> text,
         embedding |-> ComputeTextEmbedding(text)]

\* DocumentObject.put(store_id): the object is added to the store
Put(store, obj) == Append(store, obj)

\* await chunk.put(store_id=...) returns; count += 1; the loop resumes
PutDone(t) ==
    /\ Running
    /\ tasks[t].pc = "put"
    /\ chunks' = Put(chunks, NewChunk(t))
    /\ tasks' = [tasks EXCEPT ![t] = Resume([@ EXCEPT !.count = @ + 1])]
    /\ out' = NoOut
    /\ UNCHANGED <<vsFileDocs, records, probe,
               vectorStores, fileObjects, storage, deletion>>

\* await chunk.put(store_id=...) raises
PutFail(t) ==
    /\ Running
    /\ tasks[t].pc = "put"
    /\ tasks' = [tasks EXCEPT ![t] = Raise(@, "persistence")]
    /\ out' = NoOut
    /\ UNCHANGED <<chunks, vsFileDocs, records, probe,
               vectorStores, fileObjects, storage, deletion>>

\* the VectorStoreFileDocument as upsert holds it
VsFileOf(t) ==
    [file_id |-> ToolId(t), vector_store_id |-> tasks[t].store,
     status |-> Status(tasks[t]), usage_bytes |-> tasks[t].usage_bytes,
     last_error |-> tasks[t].last_error]

\* return await vs_file.put(store_id=vector_store_id); then the handler
\* awaits VectorStoreFileModel.prisma().create(...)
SaveDone(t) ==
    /\ Running
    /\ tasks[t].pc = "save"
    /\ vsFileDocs' = vsFileDocs \cup {VsFileOf(t)}
    /\ tasks' = [tasks EXCEPT ![t].pc = "record"]
    /\ out' = [op |-> "upsert", task |-> t, file |-> tasks[t].file,
               count |-> tasks[t].count, vs_file |-> VsFileOf(t)]
    /\ UNCHANGED <<chunks, records, probe,
               vectorStores, fileObjects, storage, deletion>>

\* await vs_file.put(...) raises
SaveFail(t) ==
    /\ Running
    /\ tasks[t].pc = "save"
    /\ tasks' = [tasks EXCEPT ![t] = Raise(@, "vs_file_put")]
    /\ out' = NoOut
    /\ UNCHANGED <<chunks, vsFileDocs, records, probe,
               vectorStores, fileObjects, storage, deletion>>

\* VectorStoreFileModel.prisma().create(data={"id": file.file_id, ...}): a row
\* with this id exists already and create raises, or the row is written
RecordDone(t) ==
    /\ Running
    /\ tasks[t].pc = "record"
    /\ IF records[tasks[t].file].present
       THEN /\ tasks' = [tasks EXCEPT ![t] = Raise(@, "unique")]
            /\ out' = NoOut
            /\ UNCHANGED records
       ELSE /\ records' = [records EXCEPT ![tasks[t].file] =
                              [present |-> TRUE,
                               vector_store_id |-> tasks[t].store,
                               status |-> "completed",
                               usage_bytes |-> FileBytes(tasks[t].file)]]
            /\ tasks' = [tasks EXCEPT ![t] = Ended(@, "done", "none")]
            /\ out' = NoOut
    /\ UNCHANGED <<chunks, vsFileDocs, probe,
               vectorStores, fileObjects, storage, deletion>>

\* The request's asyncio task is cancelled while it is suspended at an await:
\* CancelledError is raised there and leaves upsert like any exception.
Cancel(t) ==
    /\ Running
    /\ tasks[t].pc \in {"embed", "put", "save", "record"}
    /\ tasks' = [tasks EXCEPT ![t] = Ended(@, "cancelled", "CancelledError")]
    /\ out' = NoOut
    /\ UNCHANGED <<chunks, vsFileDocs, records, probe,
               vectorStores, fileObjects, storage, deletion>>

(***************************************************************************)
(* Chunk Store reads and deletions (DocumentObject).                       *)
(***************************************************************************)
\* FileObjectDocumentChunk.scan(store_id=v)
Scan(v) == SelectSeq(chunks, LAMBDA c : c.vector_store_id = v)

\* FileObjectDocumentChunk.find(store_id=v, file_id=fid)
Find(v, fid) ==
    SelectSeq(chunks, LAMBDA c : c.vector_store_id = v /\ c.file_id = fid)

\* obj.delete(store_id=v, id=obj.id) for every object of found
DeleteAll(found) ==
    SelectSeq(chunks, LAMBDA c : \A i \in 1..Len(found) : found[i].id # c.id)

\* VectorStoreFileModel.prisma().delete(where={"id": fid})
DeleteRecord(fid) ==
    IF fid \in Files THEN [records EXCEPT ![fid] = NoRecord] ELSE records

\* DELETE /vector_stores/{vector_store_id}/files/{file_id}
DeleteVectorStoreFile(v, fid) ==
    /\ Running
    /\ chunks' = DeleteAll(Find(v, fid))
    /\ records' = DeleteRecord(fid)
    /\ out' = NoOut
    /\ UNCHANGED <<vsFileDocs, tasks, probe,
               vectorStores, fileObjects, storage, deletion>>

\* delete_vector_store_file when the deletion of found[failed] raises: gather
\* raises it to the handler, which ends before the row is deleted and does
\* not retry; the other deletions, already scheduled, run to their end
DeleteVectorStoreFileFail(v, fid, failed) ==
    /\ Running
    /\ failed \in 1..Len(Find(v, fid))
    /\ chunks' = DeleteAll(SelectSeq(Find(v, fid),
                                     LAMBDA c : c.id # Find(v, fid)[failed].id))
    /\ out' = NoOut
    /\ UNCHANGED <<vsFileDocs, records, tasks, probe,
               vectorStores, fileObjects, storage, deletion>>

\* VectorStore.destroy(store_id=v): every object kept under the store goes
Destroy(store, v) == SelectSeq(store, LAMBDA c : c.vector_store_id # v)

\* the mutant of DeleteVectorStore: only the rows are deleted, the objects of
\* the store are not destroyed
DeleteVectorStoreRowsOnly(v) ==
    /\ Running
    /\ records' = [f \in Files |->
                     IF records[f].present /\ records[f].vector_store_id = v
                     THEN NoRecord ELSE records[f]]
    /\ vectorStores' = [vectorStores EXCEPT ![v] = NoRecord]
    /\ out' = [op |-> "delete_vector_store", store |-> v, destroyed |-> 0]
    /\ UNCHANGED <<chunks, vsFileDocs, tasks, probe,
               fileObjects, storage, deletion>>

\* DELETE /vector_stores/{vector_store_id}: VectorStore.destroy(store_id),
\* then delete_many of the store's VectorStoreFile rows and delete of the
\* store's row; destroyed counts the chunks that went
DeleteVectorStore(v) ==
    /\ Running
    /\ chunks' = Destroy(chunks, v)
    /\ vsFileDocs' = {d \in vsFileDocs : d.vector_store_id # v}
    /\ records' = [f \in Files |->
                     IF records[f].present /\ records[f].vector_store_id = v
                     THEN NoRecord ELSE records[f]]
    /\ out' = [op |-> "delete_vector_store", store |-> v,
               destroyed |-> Len(Scan(v))]
    /\ vectorStores' = [vectorStores EXCEPT ![v] = NoRecord]
    /\ UNCHANGED <<tasks, probe, fileObjects, storage, deletion>>

(***************************************************************************)
(* Similarity search: FileSearchTool.search.                               *)
(***************************************************************************)
\* faiss fvec_L2sqr: the squared Euclidean distance
L2Sqr(x, y) ==
    (x[1] - y[1]) * (x[1] - y[1]) + (x[2] - y[2]) * (x[2] - y[2])

\* the k-best list with j added: j goes behind every entry at most as far
HeapAdd(D, heap, j) ==
    LET before == SelectSeq(heap, LAMBDA i : D[i] <= D[j])
        after  == SelectSeq(heap, LAMBDA i : D[i] > D[j])
    IN  before \o <<j>> \o after

\* the mutant of HeapKeeps: a vector as far as the worst entry replaces it
HeapKeepsTies(D, heap, k, j) ==
    Len(heap) < k \/ D[j] <= D[heap[Len(heap)]]

\* a full k-best list takes vector j only if j is strictly nearer than its
\* worst entry
HeapKeeps(D, heap, k, j) ==
    Len(heap) < k \/ D[j] < D[heap[Len(heap)]]

\* IndexFlatL2.search of one query: vectors are scanned in index order into
\* a k-best list ordered by (distance, index)
RECURSIVE HeapScan(_, _, _, _)
HeapScan(D, k, j, heap) ==
    IF j > Len(D) THEN heap
    ELSE IF HeapKeeps(D, heap, k, j)
    THEN HeapScan(D, k, j + 1,
                  HeapAdd(D, IF Len(heap) < k THEN heap
                             ELSE SubSeq(heap, 1, k - 1), j))
    ELSE HeapScan(D, k, j + 1, heap)

\* I[0] of index.search: k labels, -1 where the index has too few vectors
Labels(D, k) ==
    LET heap == HeapScan(D, k, 1, <<>>)
    IN  [p \in 1..k |-> IF p <= Len(heap) THEN heap[p] ELSE -1]

\* the mutant of QueryVector: the query's embedding is not normalised
QueryVectorUnnormalized(query) ==
    [i \in 1..2 |-> 2 * ComputeTextEmbedding(query)[i]]

\* query_vector = await worker.compute_text_embedding(query)
QueryVector(query) == ComputeTextEmbedding(query)

\* D[0] of index.search, as float32 values (multiples of 1/One)
Distances(documents, query) ==
    [i \in 1..Len(documents) |->
        L2Sqr(QueryVector(query), documents[i].embedding) * One]

\* np.array([doc.embedding for doc in documents]).shape
EmbeddingsShape(documents) ==
    IF documents = <<>> THEN <<0>> ELSE <<Len(documents), EmbeddingDim>>

\* the mutant of Reshaped: a one-dimensional array is left as it is
ReshapedNever(shape) == shape

\* if embeddings.ndim == 1: embeddings = embeddings.reshape(-1, 768)
Reshaped(shape) ==
    IF Len(shape) = 1 THEN <<shape[1] \div EmbeddingDim, EmbeddingDim>>
    ELSE shape

\* SimilaritySearchResult(id=..., file_id=..., score=..., content=...)
Result(doc, distance) ==
    [id |-> doc.id, file_id |-> doc.file_id, score |-> Score(distance),
     content |-> doc.content]

\* the mutant of Hit: a label -1 indexes documents[-1], the last document
HitOfAnyLabel(documents, i) ==
    IF i = -1 THEN (IF documents = <<>> THEN 0 ELSE Len(documents)) ELSE i

\* if i == -1: continue
Hit(documents, i) == IF i = -1 THEN 0 ELSE i

\* the loop over zip(I[0], D[0]): one result per label that is kept
Results(documents, query, top_k) ==
    LET D == Distances(documents, query)
        I == Labels(D, top_k)
        hits == SelectSeq([p \in 1..top_k |-> Hit(documents, I[p])],
                          LAMBDA i : i # 0)
    IN  [p \in 1..Len(hits) |-> Result(documents[hits[p]], D[hits[p]])]

\* the mutant of Documents: the chunks that ingestions have embedded and not
\* yet put are searched too, as an index updated at embedding time would
DocumentsWithPending(v) ==
    LET pending == {t \in Tasks : tasks[t].pc = "put" /\ tasks[t].store = v}
        first == IF pending = {} THEN <<>>
                 ELSE <<NewChunk(CHOOSE t \in pending : TRUE)>>
    IN  Scan(v) \o first

\* documents = list(FileObjectDocumentChunk.scan(store_id=vector_store_id))
Documents(v) == Scan(v)

\* the mutant of Search: the query is kept in the store as a chunk of its own
SearchAndKeepQuery(v, query, top_k) ==
    /\ Running
    /\ out' = [op |-> "search", store |-> v, query |-> query,
               top_k |-> top_k, error |-> "none",
               results |-> Results(Documents(v), query, top_k)]
    /\ chunks' = Put(chunks, [id |-> <<0, Len(chunks) + 1>>,
                              vector_store_id |-> v, file_id |-> "query",
                              content |-> query,
                              embedding |-> QueryVector(query)])
    /\ UNCHANGED <<vsFileDocs, records, tasks, probe,
                   vectorStores, fileObjects, storage, deletion>>

\* POST /search/{vector_store_id}/similarity; embeddings.shape[1] raises an
\* IndexError on an array of one dimension
Search(v, query, top_k) ==
    /\ Running
    /\ out' = IF Len(Reshaped(EmbeddingsShape(Documents(v)))) < 2
              THEN [op |-> "search", store |-> v, query |-> query,
                    top_k |-> top_k, error |-> "IndexError",
                    results |-> <<>>]
              ELSE [op |-> "search", store |-> v, query |-> query,
                    top_k |-> top_k, error |-> "none",
                    results |-> Results(Documents(v), query, top_k)]
    /\ UNCHANGED <<chunks, vsFileDocs, records, tasks, probe,
               vectorStores, fileObjects, storage, deletion>>

\* the response of the last handler is sent to its client
Respond ==
    /\ out # NoOut
    /\ out' = NoOut
    /\ UNCHANGED <<chunks, vsFileDocs, records, tasks, probe,
               vectorStores, fileObjects, storage, deletion>>

TopKs == 1..MaxTopK

\* the texts searched for
Queries == {TextA, TextB}

Next ==
    \/ \E t \in Tasks, v \in Stores, f \in Files : StartIngest(t, v, f)
    \/ \E t \in Tasks, v \in Stores, f \in Files : StartFail(t, v, f)
    \/ \E t \in Tasks : EmbedDone(t)
    \/ \E t \in Tasks : EmbedFail(t)
    \/ \E t \in Tasks : PutDone(t)
    \/ \E t \in Tasks : PutFail(t)
    \/ \E t \in Tasks : SaveDone(t)
    \/ \E t \in Tasks : SaveFail(t)
    \/ \E t \in Tasks : RecordDone(t)
    \/ \E t \in Tasks : Cancel(t)
    \/ \E v \in Stores, fid \in FileIds : DeleteVectorStoreFile(v, fid)
    \/ \E v \in Stores : DeleteVectorStore(v)
    \/ \E v \in Stores, q \in Queries, k \in TopKs : Search(v, q, k)
    \/ Respond

Spec == Init /\ [][Next]_vars

(***************************************************************************)
(* Ingestions that succeed, and deletions of files one of which may fail.  *)
(***************************************************************************)
NextDeleteFailure ==
    \/ \E t \in Tasks, v \in Stores, f \in Files : StartIngest(t, v, f)
    \/ \E t \in Tasks : EmbedDone(t)
    \/ \E t \in Tasks : PutDone(t)
    \/ \E t \in Tasks : SaveDone(t)
    \/ \E t \in Tasks : RecordDone(t)
    \/ \E v \in Stores, fid \in FileIds : DeleteVectorStoreFile(v, fid)
    \/ \E v \in Stores, fid \in FileIds, i \in 1..Len(chunks) :
          DeleteVectorStoreFileFail(v, fid, i)
    \/ Respond

SpecDeleteFailure == Init /\ [][NextDeleteFailure]_vars

(***************************************************************************)
(* Vector stores: create_vector_store, and delete_vector_store one await   *)
(* at a time, each of which may raise, beside ingestions that succeed.     *)
(***************************************************************************)
\* VectorStore: usage_bytes = Field(default=0), file_counts = Field(default=None)
NewVectorStore == [present |-> TRUE, usage_bytes |-> 0, file_counts |-> "null"]

\* VectorStoreModel.prisma().upsert(create=data, update=data): CreateVectorStore
\* has neither usage_bytes nor file_counts, so an existing row keeps its own
UpsertVectorStore(row) == IF row.present THEN row ELSE NewVectorStore

\* POST /vector_stores
CreateVectorStore(v) ==
    /\ Running
    /\ vectorStores' = [vectorStores EXCEPT ![v] = UpsertVectorStore(@)]
    /\ out' = [op |-> "create_vector_store", store |-> v]
    /\ UNCHANGED <<chunks, vsFileDocs, records, tasks, probe,
                   fileObjects, storage, deletion>>

\* VectorStoreFileModel.prisma().delete_many(where={"vector_store_id": v})
DeleteMany(v) ==
    [f \in Files |->
        IF records[f].present /\ records[f].vector_store_id = v
        THEN NoRecord ELSE records[f]]

\* the mutant of DeleteVectorStoreDestroy: the store's row is deleted first
DeleteVectorStoreRowFirst(v) ==
    /\ Running
    /\ deletion.pc = "idle"
    /\ vectorStores' = [vectorStores EXCEPT ![v] = NoRecord]
    /\ deletion' = [pc |-> "delete_many", store |-> v]
    /\ out' = NoOut
    /\ UNCHANGED <<chunks, vsFileDocs, records, tasks, probe,
                   fileObjects, storage>>

\* DELETE /vector_stores/{vector_store_id} up to its second await:
\* VectorStore.destroy(store_id) has returned, delete_many is awaited
DeleteVectorStoreDestroy(v) ==
    /\ Running
    /\ deletion.pc = "idle"
    /\ chunks' = Destroy(chunks, v)
    /\ vsFileDocs' = {d \in vsFileDocs : d.vector_store_id # v}
    /\ deletion' = [pc |-> "delete_many", store |-> v]
    /\ out' = NoOut
    /\ UNCHANGED <<records, tasks, probe, vectorStores, fileObjects, storage>>

\* await VectorStore.destroy(...) raises: the handler ends there
DeleteVectorStoreDestroyFail(v) ==
    /\ Running
    /\ deletion.pc = "idle"
    /\ out' = [op |-> "delete_vector_store", store |-> v,
               error |-> "destroy"]
    /\ UNCHANGED <<chunks, vsFileDocs, records, tasks, probe,
                   vectorStores, fileObjects, storage, deletion>>

\* delete_many has returned, the delete of the store's row is awaited
DeleteVectorStoreFiles ==
    /\ Running
    /\ deletion.pc = "delete_many"
    /\ records' = DeleteMany(deletion.store)
    /\ deletion' = [deletion EXCEPT !.pc = "delete"]
    /\ out' = NoOut
    /\ UNCHANGED <<chunks, vsFileDocs, tasks, probe,
                   vectorStores, fileObjects, storage>>

\* await delete_many(...) raises: the handler ends there
DeleteVectorStoreFilesFail ==
    /\ Running
    /\ deletion.pc = "delete_many"
    /\ deletion' = NoDeletion
    /\ out' = [op |-> "delete_vector_store", store |-> deletion.store,
               error |-> "delete_many"]
    /\ UNCHANGED <<chunks, vsFileDocs, records, tasks, probe,
                   vectorStores, fileObjects, storage>>

\* VectorStoreModel.prisma().delete(where={"id": vector_store_id}) returns
DeleteVectorStoreRow ==
    /\ Running
    /\ deletion.pc = "delete"
    /\ vectorStores' = [vectorStores EXCEPT ![deletion.store] = NoRecord]
    /\ deletion' = NoDeletion
    /\ out' = [op |-> "delete_vector_store", store |-> deletion.store,
               error |-> "none"]
    /\ UNCHANGED <<chunks, vsFileDocs, records, tasks, probe,
                   fileObjects, storage>>

\* await delete(...) raises: the row stays
DeleteVectorStoreRowFail ==
    /\ Running
    /\ deletion.pc = "delete"
    /\ deletion' = NoDeletion
    /\ out' = [op |-> "delete_vector_store", store |-> deletion.store,
               error |-> "delete"]
    /\ UNCHANGED <<chunks, vsFileDocs, records, tasks, probe,
                   vectorStores, fileObjects, storage>>

NextStore ==
    \/ \E v \in Stores : CreateVectorStore(v)
    \/ \E t \in Tasks, v \in Stores, f \in Files : StartIngest(t, v, f)
    \/ \E t \in Tasks : EmbedDone(t)
    \/ \E t \in Tasks : PutDone(t)
    \/ \E t \in Tasks : SaveDone(t)
    \/ \E t \in Tasks : RecordDone(t)
    \/ \E v \in Stores : DeleteVectorStoreDestroy(v)
    \/ \E v \in Stores : DeleteVectorStoreDestroyFail(v)
    \/ DeleteVectorStoreFiles
    \/ DeleteVectorStoreFilesFail
    \/ DeleteVectorStoreRow
    \/ DeleteVectorStoreRowFail
    \/ Respond

SpecStore == Init /\ [][NextStore]_vars

(***************************************************************************)
(* Uploads: POST /files, and the ingest endpoint up to the retrieval of    *)
(* the uploaded object.  A key is the sequence of the parts that "/" joins. *)
(***************************************************************************)
\* file.filename of an upload; "" (or None): the upload has no file name
Filenames == {"a.pdf", ""}

\* the contents uploaded
Bodies == {"x", "yy"}

\* f"{a}/{b}"
Slash(a, b) == a \o b

\* key = f"{id_}/{file.filename}" if file.filename else f"{id_}/file.bin"
UploadKey(id, filename) ==
    IF filename # "" THEN Slash(<<id>>, <<filename>>)
    ELSE Slash(<<id>>, <<"file.bin">>)

\* Storage.update / Storage.create: put_object(Key=key, Body=body)
PutObject(bucket, key, body) ==
    {o \in bucket : o.key # key} \cup {[key |-> key, body |-> body]}

\* POST /files: the content is stored under key and the FileObject row is
\* created with "filename": key
PostHandler(id, filename, body) ==
    /\ Running
    /\ ~fileObjects[id].present
    /\ storage' = PutObject(storage, UploadKey(id, filename), body)
    /\ fileObjects' = [fileObjects EXCEPT ![id] =
                          [present |-> TRUE,
                           filename |-> UploadKey(id, filename)]]
    /\ out' = [op |-> "post_file", id |-> id]
    /\ UNCHANGED <<chunks, vsFileDocs, records, tasks, probe,
                   vectorStores, deletion>>

\* key = f"{file.file_id}/{file_object.filename}"
IngestKey(file_id, file_object) ==
    Slash(<<file_id>>, file_object.filename)

\* Storage.retrieve(id=key): get_object raises when the bucket has no such key
Retrieve(bucket, key) ==
    IF \E o \in bucket : o.key = key
    THEN [error |-> "none", key |-> key,
          body |-> (CHOOSE o \in bucket : o.key = key).body]
    ELSE [error |-> "NoSuchKey", key |-> key, body |-> ""]

\* POST /vector_stores/{vector_store_id}/files up to obj = await
\* storage.retrieve(id=key): the file is unknown, or the object is read or
\* get_object raises, which ends the handler
IngestRetrieve(file_id) ==
    /\ Running
    /\ out' = IF ~fileObjects[file_id].present
              THEN [op |-> "ingest_retrieve", file |-> file_id,
                    obj |-> [error |-> "File not found", key |-> <<>>,
                             body |-> ""]]
              ELSE [op |-> "ingest_retrieve", file |-> file_id,
                    obj |-> Retrieve(storage,
                                     IngestKey(file_id, fileObjects[file_id]))]
    /\ UNCHANGED <<chunks, vsFileDocs, records, tasks, probe,
                   vectorStores, fileObjects, storage, deletion>>

NextUpload ==
    \/ \E id \in UploadIds, n \in Filenames, b \in Bodies :
          PostHandler(id, n, b)
    \/ \E id \in UploadIds : IngestRetrieve(id)
    \/ Respond

SpecUpload == Init /\ [][NextUpload]_vars

(***************************************************************************)
(* Listings: list_vector_stores and list_vector_store_files on their own.  *)
(* A row is named by the order of its creation: id i has created_at i.     *)
(***************************************************************************)
\* no cursor: after / before is None
NoCursor == 0

\* the rows of a table, in the order of their creation
Rows(n) == [i \in 1..n |-> [id |-> i, created_at |-> i]]

\* instance_list[::-1]
Reverse(seq) == [i \in 1..Len(seq) |-> seq[Len(seq) + 1 - i]]

\* find_many(take=limit)
Take(seq, limit) == SubSeq(seq, 1, IF limit < Len(seq) THEN limit ELSE Len(seq))

\* find_many(take=limit, where=..., order={"created_at": "desc"})
FindManyFiles(rows, limit) == Take(Reverse(rows), limit)

\* find_many(take=limit) without an order: the rows come in the order the
\* database happens to return, db_order
FindManyStores(rows, db_order, limit) ==
    Take([i \in 1..Len(rows) |-> rows[db_order[i]]], limit)

\* generator(): break at the before row, skip the after row, yield the others
RECURSIVE Generator(_, _, _, _, _)
Generator(response, before, after, i, yielded) ==
    IF i > Len(response) THEN yielded
    ELSE IF before # NoCursor /\ response[i].id = before THEN yielded
    ELSE IF after # NoCursor /\ response[i].id = after
    THEN Generator(response, before, after, i + 1, yielded)
    ELSE Generator(response, before, after, i + 1,
                   Append(yielded, response[i]))

\* if order == "asc": return instance_list; else instance_list[::-1]
Ordered(instance_list, order) ==
    IF order = "asc" THEN instance_list ELSE Reverse(instance_list)

\* GET /vector_stores/{vector_store_id}/files
ListVectorStoreFiles(rows, limit, order, after, before) ==
    Ordered(Generator(FindManyFiles(rows, limit), before, after, 1, <<>>),
            order)

\* GET /vector_stores
ListVectorStores(rows, db_order, limit, order, after, before) ==
    Ordered(Generator(FindManyStores(rows, db_order, limit), before, after,
                      1, <<>>),
            order)

\* the orders in which a database may return n rows
DbOrders(n) ==
    {p \in [1..n -> 1..n] : \A i, j \in 1..n : i # j => p[i] # p[j]}

InitList ==
    /\ chunks = <<>>
    /\ vsFileDocs = {}
    /\ records = [f \in Files |-> NoRecord]
    /\ tasks = [t \in Tasks |-> IdleTask]
    /\ out = NoOut
    /\ vectorStores = [v \in Stores |-> NoRecord]
    /\ fileObjects = [id \in UploadIds |-> NoRecord]
    /\ storage = {}
    /\ deletion = NoDeletion
    /\ \E n \in 0..MaxRows :
          probe \in {[op |-> "list", rows |-> Rows(n), db_order |-> p,
                      limit |-> l, order |-> o, after |-> a, before |-> b] :
                        p \in DbOrders(n), l \in 1..MaxLimit,
                        o \in {"asc", "desc"},
                        a \in {NoCursor} \cup 1..n,
                        b \in {NoCursor} \cup 1..n}

\* the two listings of the same table contents and query parameters
ListStep ==
    /\ probe.op = "list"
    /\ probe' = [op |-> "listed", rows |-> probe.rows, limit |-> probe.limit,
                 order |-> probe.order, after |-> probe.after,
                 before |-> probe.before,
                 files |-> ListVectorStoreFiles(probe.rows, probe.limit,
                              probe.order, probe.after, probe.before),
                 stores |-> ListVectorStores(probe.rows, probe.db_order,
                              probe.limit, probe.order, probe.after,
                              probe.before)]
    /\ UNCHANGED <<chunks, vsFileDocs, records, tasks, out,
                   vectorStores, fileObjects, storage, deletion>>

NextList == ListStep

SpecList == InitList /\ [][NextList]_vars

(***************************************************************************)
(* The score function on its own: every pair of sampled distances is       *)
(* scored.                                                                 *)
(***************************************************************************)
\* float32 distances: the smallest ones, sixteenths up to 4, and neighbours
\* of 1/2
DistSamples ==
    (0..MaxDistSamples)
        \cup {k * (One \div 16) : k \in 0..64}
        \cup {(One \div 2) + 4 * k : k \in 0..4}

InitScore ==
    /\ chunks = <<>>
    /\ vsFileDocs = {}
    /\ records = [f \in Files |-> NoRecord]
    /\ tasks = [t \in Tasks |-> IdleTask]
    /\ out = NoOut
    /\ vectorStores = [v \in Stores |-> NoRecord]
    /\ fileObjects = [id \in UploadIds |-> NoRecord]
    /\ storage = {}
    /\ deletion = NoDeletion
    /\ probe \in {[op |-> "distances", d1 |-> a, d2 |-> b] :
                     a \in DistSamples, b \in DistSamples}

\* score=float(1 / (1 + distance)) of two results
ScoreStep ==
    /\ probe.op = "distances"
    /\ probe' = [op |-> "scores", d1 |-> probe.d1, d2 |-> probe.d2,
                 s1 |-> Score(probe.d1), s2 |-> Score(probe.d2)]
    /\ UNCHANGED <<chunks, vsFileDocs, records, tasks, out,
                   vectorStores, fileObjects, storage, deletion>>

NextScore == ScoreStep

SpecScore == InitScore /\ [][NextScore]_vars

(***************************************************************************)
(* The Embedding Provider on its own: the worker of embeddings/handler.py, *)
(* its start-up and the coroutines that await compute_text_embedding.      *)
(***************************************************************************)
VisionModelName == "nomic-ai/nomic-embed-vision-v1.5"
TextModelName == "nomic-ai/nomic-embed-text-v1.5"
ModelNames == {VisionModelName, TextModelName}

Callers == 1..MaxCallers

\* the process before embeddings/handler.py is imported
NoWorker ==
    [op |-> "provider", started |-> FALSE,
     model_loads |-> [m \in ModelNames |-> 0], tokenizer_loads |-> 0,
     model_cache |-> "none", tokenizer_cache |-> "none",
     vision_model |-> "none", tokenizer |-> "none", text_model |-> "none",
     callers |-> [c \in Callers |-> [at |-> "idle", done |-> 0]]]

\* load_model under ttl_cache(maxsize=1): a call with the cached name is
\* answered from the cache, any other call loads and replaces the entry
LoadModel(p, name) ==
    IF p.model_cache = name THEN p
    ELSE [p EXCEPT !.model_loads[name] = @ + 1, !.model_cache = name]

\* load_tokenizer under ttl_cache(maxsize=1)
LoadTokenizer(p, name) ==
    IF p.tokenizer_cache = name THEN p
    ELSE [p EXCEPT !.tokenizer_loads = @ + 1, !.tokenizer_cache = name]

\* ImageTextEmbedder.__post_init__: vision model, tokenizer, text model
PostInit(p) ==
    LET p1 == [LoadModel(p, VisionModelName)
                  EXCEPT !.vision_model = VisionModelName]
        p2 == [LoadTokenizer(p1, TextModelName)
                  EXCEPT !.tokenizer = TextModelName]
        p3 == [LoadModel(p2, TextModelName)
                  EXCEPT !.text_model = TextModelName]
    IN  [p3 EXCEPT !.started = TRUE]

\* the mutant of UseTextModel: the model is fetched with load_model on every
\* call
UseTextModelReloaded(p) ==
    LoadModel(LoadTokenizer(p, TextModelName), TextModelName)

\* compute_text_embedding uses self.tokenizer and self.text_model as loaded
UseTextModel(p) == p

\* the mutant of ModelFree: an invocation starts whatever is running
ModelFreeAlways(p) == TRUE

\* the queue/lock around the model call: no invocation is in flight
ModelFree(p) == \A c \in Callers : p.callers[c].at # "running"

\* the model invocations in flight
InFlight(p) == {c \in Callers : p.callers[c].at = "running"}

InitProvider ==
    /\ chunks = <<>>
    /\ vsFileDocs = {}
    /\ records = [f \in Files |-> NoRecord]
    /\ tasks = [t \in Tasks |-> IdleTask]
    /\ out = NoOut
    /\ vectorStores = [v \in Stores |-> NoRecord]
    /\ fileObjects = [id \in UploadIds |-> NoRecord]
    /\ storage = {}
    /\ deletion = NoDeletion
    /\ probe = NoWorker

\* worker = ImageTextEmbedder(), once, when the module is imported
Startup ==
    /\ ~probe.started
    /\ probe' = PostInit(probe)
    /\ UNCHANGED <<chunks, vsFileDocs, records, tasks, out,
                   vectorStores, fileObjects, storage, deletion>>

\* an ingestion or a search awaits worker.compute_text_embedding(text)
CallTextEmbedding(c) ==
    /\ probe.started
    /\ probe.callers[c].at = "idle"
    /\ probe.callers[c].done < MaxCalls
    /\ probe' = [probe EXCEPT !.callers[c].at = "waiting"]
    /\ UNCHANGED <<chunks, vsFileDocs, records, tasks, out,
                   vectorStores, fileObjects, storage, deletion>>

\* the call gets the model: tokenizer and model forward pass begin
Invoke(c) ==
    /\ probe.callers[c].at = "waiting"
    /\ ModelFree(probe)
    /\ probe' = [UseTextModel(probe) EXCEPT !.callers[c].at = "running"]
    /\ UNCHANGED <<chunks, vsFileDocs, records, tasks, out,
                   vectorStores, fileObjects, storage, deletion>>

\* the forward pass ends and the embedding is returned to the caller
Return(c) ==
    /\ probe.callers[c].at = "running"
    /\ probe' = [probe EXCEPT !.callers[c] =
                    [at |-> "idle", done |-> @.done + 1]]
    /\ UNCHANGED <<chunks, vsFileDocs, records, tasks, out,
                   vectorStores, fileObjects, storage, deletion>>

\* the ttl of the caches of load_model and load_tokenizer runs out
Expire ==
    /\ probe.started
    /\ probe.model_cache # "none"
    /\ probe' = [probe EXCEPT !.model_cache = "none",
                              !.tokenizer_cache = "none"]
    /\ UNCHANGED <<chunks, vsFileDocs, records, tasks, out,
                   vectorStores, fileObjects, storage, deletion>>

NextProvider ==
    \/ Startup
    \/ \E c \in Callers : CallTextEmbedding(c)
    \/ \E c \in Callers : Invoke(c)
    \/ \E c \in Callers : Return(c)
    \/ Expire

SpecProvider == InitProvider /\ [][NextProvider]_vars

(***************************************************************************)
(* The chunker on its own: SentenceChunker.  A text is the sequence of the *)
(* sentences that nlp finds in it; a chunk, the join of sentences, is the  *)
(* sequence of its sentences, and nlp finds them again in it.              *)
(***************************************************************************)
\* the one sentence nlp finds in a text of white space only
Blank == 0

\* the texts: of 0..MaxSentences sentences, or of white space only
SentenceTexts ==
    {[i \in 1..n |-> i] : n \in 0..MaxSentences} \cup {<<Blank>>}

\* list(self.nlp(text).sents)
Sents(text) == text

\* the mutant of Full: a chunk is closed one sentence late
FullLate(current_count, max_chunk_size) == current_count > max_chunk_size

\* if current_count >= self.max_chunk_size_tokens
Full(current_count, max_chunk_size) == current_count >= max_chunk_size

\* the for loop of _apply_max_chunk_size from sentence i on
RECURSIVE MaxChunkSizeLoop(_, _, _, _, _)
MaxChunkSizeLoop(sentences, max_chunk_size, i, current_chunk, grouped) ==
    IF i > Len(sentences)
    THEN IF current_chunk # <<>> THEN Append(grouped, current_chunk)
         ELSE grouped
    ELSE LET current == Append(current_chunk, sentences[i])
         IN  IF Full(Len(current), max_chunk_size)
             THEN MaxChunkSizeLoop(sentences, max_chunk_size, i + 1, <<>>,
                                   Append(grouped, current))
             ELSE MaxChunkSizeLoop(sentences, max_chunk_size, i + 1, current,
                                   grouped)

\* SentenceChunker._apply_max_chunk_size
ApplyMaxChunkSize(text, max_chunk_size) ==
    IF Sents(text) = <<>> THEN <<>>
    ELSE MaxChunkSizeLoop(Sents(text), max_chunk_size, 1, <<>>, <<>>)

\* prev_sentences[-overlap_size:] if len(prev_sentences) >= overlap_size
\* else prev_sentences
OverlapSentences(prev_sentences, overlap_size) ==
    IF Len(prev_sentences) >= overlap_size
    THEN SubSeq(prev_sentences, Len(prev_sentences) - overlap_size + 1,
                Len(prev_sentences))
    ELSE prev_sentences

\* the mutant of PrevChunk: the chunk before is taken with its overlap
PrevChunkOverlapped(grouped, overlapped_chunks, i) == overlapped_chunks[i - 1]

\* prev_chunk = chunks[i - 1]
PrevChunk(grouped, overlapped_chunks, i) == grouped[i - 1]

\* the for loop of _apply_chunk_overlap from chunk i on
RECURSIVE ChunkOverlapLoop(_, _, _, _)
ChunkOverlapLoop(grouped, overlap_size, i, overlapped_chunks) ==
    IF i > Len(grouped) THEN overlapped_chunks
    ELSE IF i = 1
    THEN ChunkOverlapLoop(grouped, overlap_size, 2,
                          Append(overlapped_chunks, grouped[1]))
    ELSE LET prev == Sents(PrevChunk(grouped, overlapped_chunks, i))
             current_text == OverlapSentences(prev, overlap_size)
         IN  ChunkOverlapLoop(grouped, overlap_size, i + 1,
                 Append(overlapped_chunks,
                        IF current_text # <<>>
                        THEN current_text \o grouped[i] ELSE grouped[i]))

\* SentenceChunker._apply_chunk_overlap
ApplyChunkOverlap(grouped, chunk_overlap) ==
    IF grouped = <<>> \/ chunk_overlap = 0 THEN grouped
    ELSE ChunkOverlapLoop(grouped, chunk_overlap, 1, <<>>)

\* chunk.strip() is empty: the chunk has no sentence but white space
IsBlank(chunk) == \A i \in 1..Len(chunk) : chunk[i] = Blank

\* the mutant of Kept: every chunk is yielded
KeptAlways(chunk) == TRUE

\* if chunk.strip(): yield chunk
Kept(chunk) == ~IsBlank(chunk)

\* SentenceChunker.chunk
Chunk(text, max_chunk_size, chunk_overlap) ==
    SelectSeq(ApplyChunkOverlap(ApplyMaxChunkSize(text, max_chunk_size),
                                chunk_overlap),
              Kept)

\* vs_file.usage_bytes after n chunks
RECURSIVE UsageAfter(_)
UsageAfter(n) == IF n = 0 THEN 0 ELSE AddUsage(UsageAfter(n - 1))

\* FileSearchTool.upsert run to its end over the chunks of a text, every
\* embedding and put succeeding
UpsertAll(text_chunks) ==
    [count |-> Len(text_chunks), usage_bytes |-> UsageAfter(Len(text_chunks)),
     status |-> "completed"]

InitChunk ==
    /\ chunks = <<>>
    /\ vsFileDocs = {}
    /\ records = [f \in Files |-> NoRecord]
    /\ tasks = [t \in Tasks |-> IdleTask]
    /\ out = NoOut
    /\ vectorStores = [v \in Stores |-> NoRecord]
    /\ fileObjects = [id \in UploadIds |-> NoRecord]
    /\ storage = {}
    /\ deletion = NoDeletion
    /\ probe \in {[op |-> "text", text |-> x, max_chunk_size |-> k,
                   chunk_overlap |-> o] :
                     x \in SentenceTexts, k \in 1..MaxChunkSize,
                     o \in 0..MaxOverlap}

\* SentenceChunker(max_chunk_size_tokens=k, chunk_overlap_tokens=o) is built
\* (no validator rejects any pair), chunk(text) is run and its chunks are
\* ingested
ChunkStep ==
    /\ probe.op = "text"
    /\ probe' =
          LET returned == Chunk(probe.text, probe.max_chunk_size,
                                probe.chunk_overlap)
          IN  [op |-> "chunks", text |-> probe.text,
               max_chunk_size |-> probe.max_chunk_size,
               chunk_overlap |-> probe.chunk_overlap,
               error |-> "none", returned |-> returned,
               vs_file |-> UpsertAll(returned)]
    /\ UNCHANGED <<chunks, vsFileDocs, records, tasks, out,
                   vectorStores, fileObjects, storage, deletion>>

NextChunk == ChunkStep

SpecChunk == InitChunk /\ [][NextChunk]_vars

(***************************************************************************)
(* Properties of ingestion.                                                *)
(***************************************************************************)
Terminal == {"completed", "failed", "cancelled"}

\* a status history that starts in_progress and leaves it at most once
StatusLogLegal(log) ==
    \A i \in 1..Len(log) :
        IF i = 1 THEN log[i] = "in_progress"
        ELSE log[i - 1] = "in_progress" /\ log[i] \in Terminal

IsPrefix(a, b) == Len(a) <= Len(b) /\ SubSeq(b, 1, Len(a)) = a

\* C1: a vector-store file's status starts as in_progress; from in_progress
\* it moves only to completed, failed or cancelled; a terminal status is
\* never changed again, neither on the object of its ingestion nor on the
\* persisted document, whatever other ingestions, searches or deletions do.
C1_StatusStateMachine ==
    [][/\ \A t \in Tasks :
            /\ IsPrefix(tasks[t].status_log, tasks'[t].status_log)
            /\ StatusLogLegal(tasks'[t].status_log)
       /\ \A d \in vsFileDocs, e \in vsFileDocs' :
            d.file_id = e.file_id => e.status = d.status]_vars

\* C1 witness: one ingestion went in_progress -> completed and has ended
\* while a second ingestion is persisting a chunk
C1_Witness ==
    \E t \in Tasks, u \in Tasks :
        /\ tasks[t].pc = "done"
        /\ tasks[t].status_log = <<"in_progress", "completed">>
        /\ tasks[u].pc = "put"
        /\ Status(tasks[u]) = "in_progress"

\* C2: when chunking, embedding or chunk persistence fails, the ingestion
\* ends with status failed and a last_error that is not null.
C2_FailureIsRecorded ==
    \A t \in Tasks :
        tasks[t].raised \in {"chunking", "embedding", "persistence"}
            => Status(tasks[t]) = "failed" /\ tasks[t].last_error # "null"

\* C3: a successful ingestion returns a vector-store file with status
\* completed whose usage_bytes is the sum of the embedding byte sizes of the
\* chunks persisted in that call: three chunks of 768 float32 give 9216.
C3_UsageBytesIsSum ==
    out.op = "upsert" =>
        /\ out.vs_file.status = "completed"
        /\ out.count = Len(Segments(out.file))
        /\ out.vs_file.usage_bytes = out.count * EmbeddingNbytes
        /\ (out.count = 3 => out.vs_file.usage_bytes = 9216)

\* C3 witness: an ingestion of three chunks returns 9216 bytes
C3_Witness ==
    /\ out.op = "upsert"
    /\ out.count = 3
    /\ out.vs_file.usage_bytes = 9216
    /\ out.vs_file.status = "completed"

\* C4: when the embedding or persistence of a chunk fails, the ingestion
\* stops there: the chunks persisted before stay in the Chunk Store, and the
\* ingestion embeds and persists nothing afterwards.
C4_AbortWithoutRollback ==
    [][\A t \in Tasks :
        /\ (tasks[t].raised = "none" /\ tasks'[t].raised # "none")
              => chunks' = chunks
        /\ tasks[t].raised # "none"
              => /\ tasks'[t] = tasks[t]
                 /\ \A i \in 1..Len(chunks') :
                       chunks'[i].id[1] = t
                          => \E j \in 1..Len(chunks) : chunks[j] = chunks'[i]
      ]_vars

\* C4 witness: an ingestion ended by an embedding failure after it had
\* persisted a chunk, which is still stored
C4_Witness ==
    \E t \in Tasks :
        /\ tasks[t].pc = "error"
        /\ tasks[t].raised = "embedding"
        /\ \E i \in 1..Len(chunks) : chunks[i].id[1] = t

\* C5: an ingestion that is cancelled ends with status cancelled.
C5_CancelledIsRecorded ==
    \A t \in Tasks :
        tasks[t].raised = "CancelledError" => Status(tasks[t]) = "cancelled"

(***************************************************************************)
(* Properties of similarity search.                                        *)
(***************************************************************************)
Min(a, b) == IF a <= b THEN a ELSE b

\* the squared distance of the query of the response out to each document
QueryDistances(documents) ==
    [i \in 1..Len(documents) |->
        L2Sqr(ComputeTextEmbedding(out.query), documents[i].embedding)]

\* the results of the response out are stored documents of its store
ResultsAreStored(documents) ==
    \A p \in 1..Len(out.results) :
        \E i \in 1..Len(documents) :
            /\ documents[i].id = out.results[p].id
            /\ documents[i].file_id = out.results[p].file_id
            /\ documents[i].content = out.results[p].content

IndexOf(documents, id) ==
    CHOOSE i \in 1..Len(documents) : documents[i].id = id

\* document i ranks before document j: nearer, or as near and scanned first
Nearer(D, i, j) == D[i] < D[j] \/ (D[i] = D[j] /\ i < j)

\* C6: a search with top_k over a store of n chunks returns min(top_k, n)
\* results, each a distinct stored chunk of that store, in order of
\* descending score.
C6_MinTopKDistinctRanked ==
    (out.op = "search" /\ out.error = "none") =>
        LET documents == Scan(out.store)
            r == out.results
        IN  /\ Len(r) = Min(out.top_k, Len(documents))
            /\ \A p \in 1..Len(r), q \in 1..Len(r) :
                  p # q => r[p].id # r[q].id
            /\ ResultsAreStored(documents)
            /\ \A p \in 1..(Len(r) - 1) : r[p].score >= r[p + 1].score

\* C6 witness: top_k = 3 over a store of two chunks returns the two, ranked
C6_Witness ==
    /\ out.op = "search"
    /\ out.error = "none"
    /\ out.top_k = 3
    /\ Len(Scan(out.store)) = 2
    /\ Len(out.results) = 2
    /\ out.results[1].score > out.results[2].score

\* C7: a search over a store with no chunks, never ingested into or emptied
\* by deletions, returns the empty list and raises no error.
C7_EmptyStoreEmptyResult ==
    (out.op = "search" /\ Scan(out.store) = <<>>) =>
        out.error = "none" /\ out.results = <<>>

\* C7 witness: the searched store was ingested into (its file document
\* counts bytes) and its chunks have been deleted since
C7_Witness ==
    /\ out.op = "search"
    /\ Scan(out.store) = <<>>
    /\ out.results = <<>>
    /\ \E d \in vsFileDocs :
          d.vector_store_id = out.store /\ d.usage_bytes > 0

\* C8: the results are the top_k stored chunks with the smallest squared
\* Euclidean distance to the query, nearest first; chunks at the same
\* distance rank in the order they were scanned into the index.
C8_NearestFirstTiesByIndex ==
    (out.op = "search" /\ out.error = "none") =>
        LET documents == Scan(out.store)
            r == out.results
            D == QueryDistances(documents)
            idx == [p \in 1..Len(r) |-> IndexOf(documents, r[p].id)]
        IN  /\ Len(r) <= out.top_k
            /\ ResultsAreStored(documents)
            /\ \A p \in 1..(Len(r) - 1) : Nearer(D, idx[p], idx[p + 1])
            /\ \A j \in 1..Len(documents) :
                  (\A p \in 1..Len(r) : idx[p] # j)
                     => /\ Len(r) = out.top_k
                        /\ \A p \in 1..Len(r) : Nearer(D, idx[p], j)

\* C8 witness: top_k = 2 over three chunks, the second result being as far
\* from the query as the chunk that is left out
C8_Witness ==
    /\ out.op = "search"
    /\ out.error = "none"
    /\ out.top_k = 2
    /\ Len(Scan(out.store)) = 3
    /\ Len(out.results) = 2
    /\ LET documents == Scan(out.store)
           D == QueryDistances(documents)
       IN  \E i \in 1..3, j \in 1..3 :
              /\ i < j
              /\ D[i] = D[j]
              /\ documents[i].id = out.results[2].id
              /\ documents[j].id # out.results[1].id

\* C9 as stated: the score 1 / (1 + d) lies in (0, 1], is 1 exactly when
\* d = 0, and is strictly smaller for a strictly larger distance.
C9_ScoreStrict ==
    probe.op = "scores" =>
        /\ 0 < probe.s1 /\ probe.s1 <= One
        /\ (probe.s1 = One <=> probe.d1 = 0)
        /\ (probe.d1 < probe.d2 => probe.s1 > probe.s2)

\* C9: the score lies in (0, 1] and is 1 when d = 0; in float32 it is 1
\* exactly for the distances d <= 2^-24, which 1 + d rounds to 1, and a
\* larger distance never gives a larger score.
C9_ScoreRounded ==
    probe.op = "scores" =>
        /\ 0 < probe.s1 /\ probe.s1 <= One
        /\ (probe.d1 = 0 => probe.s1 = One)
        /\ (probe.s1 = One <=> probe.d1 <= One \div (2 ^ SigBits))
        /\ (probe.d1 < probe.d2 => probe.s1 >= probe.s2)

\* C9 witness: the distances 2^-26 and 1 score 1 and 1/2
C9_Witness ==
    /\ probe.op = "scores"
    /\ probe.d1 = 1 /\ probe.s1 = One
    /\ probe.d2 = One /\ 2 * probe.s2 = One

\* C10 as stated: when a chunk with content c is stored, the search for c
\* returns a chunk with content c and score 1.0 first.
C10_ExactContentFirst ==
    (/\ out.op = "search"
     /\ out.error = "none"
     /\ \E i \in 1..Len(Scan(out.store)) :
           Scan(out.store)[i].content = out.query) =>
        /\ Len(out.results) >= 1
        /\ out.results[1].content = out.query
        /\ out.results[1].score = One

\* C10: when a chunk with content c is stored, the search for c returns
\* first a chunk with score 1.0 whose embedding is the embedding of c; its
\* content is c when no stored chunk of other content has that embedding.
C10_SameEmbeddingFirst ==
    (/\ out.op = "search"
     /\ out.error = "none"
     /\ \E i \in 1..Len(Scan(out.store)) :
           Scan(out.store)[i].content = out.query) =>
        LET documents == Scan(out.store)
            e == ComputeTextEmbedding(out.query)
        IN  /\ Len(out.results) >= 1
            /\ out.results[1].score = One
            /\ ComputeTextEmbedding(out.results[1].content) = e
            /\ (\A i \in 1..Len(documents) :
                   documents[i].embedding = e
                      => documents[i].content = out.query)
                  => out.results[1].content = out.query

\* C10 witness: the searched content is stored behind a chunk of other
\* content and comes back first with score 1.0
C10_Witness ==
    /\ out.op = "search"
    /\ out.error = "none"
    /\ Len(Scan(out.store)) >= 2
    /\ Scan(out.store)[1].content # out.query
    /\ Len(out.results) >= 1
    /\ out.results[1].content = out.query
    /\ out.results[1].score = One

(***************************************************************************)
(* Properties of searches and deletions that interleave.                   *)
(***************************************************************************)
\* the number of documents that rank before document i
Before(D, i) == Cardinality({j \in DOMAIN D : Nearer(D, j, i)})

\* the ranking of a store's contents, computed from the contents alone
Ranking(documents, query, top_k) ==
    LET D == [i \in 1..Len(documents) |->
                L2Sqr(ComputeTextEmbedding(query), documents[i].embedding)]
        at == [p \in 1..Min(top_k, Len(documents)) |->
                CHOOSE i \in 1..Len(documents) : Before(D, i) = p - 1]
    IN  [p \in 1..Min(top_k, Len(documents)) |->
            [id |-> documents[at[p]].id,
             file_id |-> documents[at[p]].file_id,
             score |-> Score(D[at[p]] * One),
             content |-> documents[at[p]].content]]

\* C11: whatever ingestions, deletions and searches came before, the result
\* of a search is the ranking of the chunks that are in the store when it is
\* called: a deleted chunk is not returned and no earlier search shows.
C11_SearchOfCurrentContents ==
    (out.op = "search" /\ out.error = "none") =>
        out.results = Ranking(Scan(out.store), out.query, out.top_k)

\* C11 witness: a file ingested into the searched store has had its chunks
\* deleted, and the search returns chunks of another ingestion
C11_Witness ==
    /\ out.op = "search"
    /\ out.error = "none"
    /\ Len(out.results) >= 1
    /\ \E d \in vsFileDocs :
          /\ d.vector_store_id = out.store
          /\ d.usage_bytes > 0
          /\ \A i \in 1..Len(chunks) : chunks[i].file_id # d.file_id

ContentsOf(f) == {Segments(f)[i] : i \in 1..Len(Segments(f))}

\* C13: when delete_file(v, f) completes for a file f ingested into v through
\* the ingest endpoint, no chunk of that ingestion is left in the store (the
\* chunks go no later than the file's row).
C13_DeleteFileCascades ==
    [][\A v \in Stores, f \in Files :
          (/\ records[f].present
           /\ records[f].vector_store_id = v
           /\ DeleteVectorStoreFile(v, f))
             => \A i \in 1..Len(chunks') :
                   ~(/\ chunks'[i].vector_store_id = v
                     /\ chunks'[i].content \in ContentsOf(f))]_vars

\* C14: a deletion of a file's chunks in which one chunk deletion fails does
\* not end with only part of the file's chunks removed.
C14_DeleteAllOrNothing ==
    [][\A v \in Stores, fid \in FileIds, i \in 1..Len(chunks) :
          DeleteVectorStoreFileFail(v, fid, i)
             => \/ Find(v, fid)' = <<>>
                \/ Find(v, fid)' = Find(v, fid)]_vars

C16_LoadedAtMostOnce ==
    probe.op = "provider" =>
        /\ \A m \in ModelNames : probe.model_loads[m] <= 1
        /\ probe.tokenizer_loads <= 1
        /\ probe.started =>
              /\ \A m \in ModelNames : probe.model_loads[m] = 1
              /\ probe.tokenizer_loads = 1

\* C16 witness: after start-up and the expiry of the caches, both callers
\* have had embeddings computed and each model has been loaded once
C16_Witness ==
    /\ probe.op = "provider"
    /\ probe.started
    /\ probe.model_cache = "none"
    /\ \A c \in Callers : probe.callers[c].done >= 2
    /\ \A m \in ModelNames : probe.model_loads[m] = 1

(***************************************************************************)
(* Properties of the chunker.                                              *)
(***************************************************************************)
Ceil(n, k) == (n + k - 1) \div k

RECURSIVE Flatten(_)
Flatten(seqs) == IF seqs = <<>> THEN <<>> ELSE seqs[1] \o Flatten(Tail(seqs))

\* sentences (j-1)k+1 .. jk of a text, as far as it goes
GroupAt(text, k, j) == SubSeq(text, (j - 1) * k + 1, Min(j * k, Len(text)))

LastN(seq, n) == SubSeq(seq, Len(seq) - n + 1, Len(seq))

\* N sentences in chunks of k: ceil(N/k) chunks of k sentences, the last of
\* 1..k, that make up the text
CutInChunksOf(text, k, returned) ==
    /\ Len(returned) = Ceil(Len(text), k)
    /\ \A i \in 1..Len(returned) :
          /\ Len(returned[i]) >= 1
          /\ Len(returned[i]) <= k
          /\ i < Len(returned) => Len(returned[i]) = k
    /\ Flatten(returned) = text

\* C17: a chunking strategy with chunk_overlap >= max_chunk_size is rejected
\* with a configuration error and produces no chunk.
C17_OverlapRejected ==
    (probe.op = "chunks" /\ probe.chunk_overlap >= probe.max_chunk_size) =>
        probe.error = "ConfigurationError" /\ probe.returned = <<>>

C19_OverlapFromOriginalGroup ==
    (probe.op = "chunks" /\ probe.chunk_overlap > 0) =>
        LET k == probe.max_chunk_size
            o == probe.chunk_overlap
            r == probe.returned
        IN  /\ probe.text # <<Blank>> => Len(r) = Ceil(Len(probe.text), k)
            /\ \A i \in 1..Len(r) :
                  IF i = 1 THEN r[1] = GroupAt(probe.text, k, 1)
                  ELSE LET before == GroupAt(probe.text, k, i - 1)
                       IN  r[i] = LastN(before, Min(o, Len(before)))
                                     \o GroupAt(probe.text, k, i)

\* C19 witness: an overlap of two over groups of one sentence: the third
\* chunk is the second and the third sentence
C19_Witness ==
    /\ probe.op = "chunks"
    /\ probe.chunk_overlap = 2
    /\ probe.max_chunk_size = 1
    /\ Len(probe.returned) >= 3
    /\ probe.returned[3] = <<2, 3>>

\* C20: an empty text is chunked into the empty sequence without error, no
\* chunk that chunk() returns is empty or of white space only, and the
\* ingestion of such a file puts no chunk and ends completed with
\* usage_bytes 0.
C20_EmptyTextNoChunk ==
    probe.op = "chunks" =>
        /\ probe.text = <<>> => probe.returned = <<>> /\ probe.error = "none"
        /\ \A i \in 1..Len(probe.returned) : ~IsBlank(probe.returned[i])
        /\ probe.text \in {<<>>, <<Blank>>} =>
              /\ probe.vs_file.count = 0
              /\ probe.vs_file.usage_bytes = 0
              /\ probe.vs_file.status = "completed"

\* C20 witness: the empty text has been chunked and ingested
C20_Witness ==
    /\ probe.op = "chunks"
    /\ probe.text = <<>>
    /\ probe.returned = <<>>
    /\ probe.vs_file.count = 0
    /\ probe.vs_file.status = "completed"

(***************************************************************************)
(* Properties of the vector store's aggregates.                            *)
(***************************************************************************)
\* the VectorStoreFile rows of store v
FilesOf(v) == {f \in Files : records[f].present /\ records[f].vector_store_id = v}

RECURSIVE SumUsage(_)
SumUsage(fs) ==
    IF fs = {} THEN 0
    ELSE LET f == CHOOSE x \in fs : TRUE
         IN  records[f].usage_bytes + SumUsage(fs \ {f})

\* the tally of the rows of fs by status
Tally(fs) ==
    [in_progress |-> Cardinality({f \in fs : records[f].status = "in_progress"}),
     completed |-> Cardinality({f \in fs : records[f].status = "completed"}),
     failed |-> Cardinality({f \in fs : records[f].status = "failed"}),
     cancelled |-> Cardinality({f \in fs : records[f].status = "cancelled"}),
     total |-> Cardinality(fs)]

\* the file_counts of a VectorStore row: None counts no file
FileCounts(row) ==
    IF row.file_counts = "null" THEN Tally({}) ELSE row.file_counts

\* an ingestion into store v is running
Ingesting(v) ==
    \E t \in Tasks :
        tasks[t].pc \in {"embed", "put", "save", "record"} /\ tasks[t].store = v

\* C21: once no ingestion into a vector store is running, the store's
\* usage_bytes is the sum of the usage_bytes of its VectorStoreFiles and its
\* file_counts are the tally of those files by status.
C21_StoreAggregatesConverge ==
    \A v \in Stores :
        (vectorStores[v].present /\ ~Ingesting(v)) =>
            /\ vectorStores[v].usage_bytes = SumUsage(FilesOf(v))
            /\ FileCounts(vectorStores[v]) = Tally(FilesOf(v))

(***************************************************************************)
(* Properties of the VectorStoreFile's fields.                             *)
(***************************************************************************)
\* C22: in every reachable state every VectorStoreFile has last_error set if
\* and only if its status is failed: the document an upsert holds or held,
\* the documents put, and the rows, which are written without a last_error.
C22_LastErrorIffFailed ==
    /\ \A t \in Tasks :
          tasks[t].status_log # <<>> =>
              (tasks[t].last_error # "null" <=> Status(tasks[t]) = "failed")
    /\ \A d \in vsFileDocs : d.last_error # "null" <=> d.status = "failed"
    /\ \A f \in Files : records[f].present => records[f].status # "failed"

\* one ingestion has raised and another has put its document and its row
C22_Witness ==
    /\ \E t \in Tasks : tasks[t].pc = "error" /\ tasks[t].raised = "embedding"
    /\ \E d \in vsFileDocs : d.status = "completed" /\ d.last_error = "null"
    /\ \E f \in Files : records[f].present

\* C23: the VectorStoreFile row that the ingest endpoint writes carries as
\* usage_bytes the sum of the embedding byte sizes of the chunks persisted for
\* the file, the value that upsert accumulated.
C23_RecordUsageIsEmbeddingBytes ==
    [][\A t \in Tasks :
          (tasks[t].pc = "record" /\ tasks'[t].pc = "done") =>
              /\ records'[tasks[t].file].usage_bytes = tasks[t].usage_bytes
              /\ records'[tasks[t].file].usage_bytes =
                     tasks[t].count * EmbeddingNbytes]_vars

\* C25: ingesting the same file into the same vector store twice leaves the
\* Chunk Store with the chunks of a single ingestion of it: no duplicate
\* accumulates.  The segments of the files differ from file to file and within
\* a file, so two chunks of a store with the same content are two copies of
\* one segment of one file.
C25_NoDuplicateChunks ==
    \A i, j \in 1..Len(chunks) :
        (i # j /\ chunks[i].vector_store_id = chunks[j].vector_store_id) =>
            chunks[i].content # chunks[j].content

(***************************************************************************)
(* Properties of the chunks an ingestion persists.                         *)
(***************************************************************************)
\* the place of a content among the segments of file f
SegmentIndex(f, content) ==
    CHOOSE i \in 1..Len(Segments(f)) : Segments(f)[i] = content

\* the chunks of the store put by the tool of task t, in insertion order
ChunksOfTool(store, t) == SelectSeq(store, LAMBDA c : c.file_id = ToolId(t))

\* C26: within one upsert call exactly one chunk is persisted per segment, in
\* Chunker output order: an embedding is requested only for the segment after
\* the last one persisted, the chunk persisted is appended to the store and
\* is that segment, behind every earlier segment of the call, and the store
\* gets a chunk of the call in no other step.
C26_OneChunkPerSegmentInOrder ==
    [][\A t \in Tasks :
        /\ tasks'[t].issued > tasks[t].issued =>
              tasks'[t].issued = tasks'[t].count + 1
        /\ tasks'[t].count = tasks[t].count + 1 =>
              /\ Len(chunks') = Len(chunks) + 1
              /\ SubSeq(chunks', 1, Len(chunks)) = chunks
              /\ chunks'[Len(chunks')].file_id = ToolId(t)
              /\ chunks'[Len(chunks')].content =
                     Segments(tasks[t].file)[tasks'[t].count]
              /\ \A j \in 1..Len(chunks) :
                    chunks[j].file_id = ToolId(t) =>
                        SegmentIndex(tasks[t].file, chunks[j].content)
                            < tasks'[t].count
        /\ Len(ChunksOfTool(chunks', t)) > Len(ChunksOfTool(chunks, t)) =>
              tasks'[t].count = tasks[t].count + 1]_vars

\* an upsert has persisted its three segments, which the store holds in the
\* document's order
C26_Witness ==
    \E t \in Tasks :
        /\ tasks[t].pc = "save"
        /\ tasks[t].count = 3
        /\ tasks[t].issued = 3
        /\ [i \in 1..3 |-> ChunksOfTool(chunks, t)[i].content]
              = Segments(tasks[t].file)

\* C27: every chunk the ingest endpoint persists for a file carries as file_id
\* the id of the file being ingested, the id under which the VectorStoreFile
\* row is created, so that find(vector_store_id, file_id) returns exactly the
\* chunks of that file's ingestion.
C27_ChunkCarriesFileId ==
    [][\A t \in Tasks :
          tasks'[t].count = tasks[t].count + 1 =>
              /\ chunks'[Len(chunks')].file_id = tasks[t].file
              /\ \E i \in 1..Len(Find(tasks[t].store, tasks[t].file)') :
                    Find(tasks[t].store, tasks[t].file)'[i]
                        = chunks'[Len(chunks')]]_vars

(***************************************************************************)
(* Properties of uploads.                                                  *)
(***************************************************************************)
\* C28: for every file uploaded through POST /files, the key that the ingest
\* endpoint retrieves for that file id is the key under which the upload
\* stored the file's bytes: ingest reads back the uploaded content.
C28_IngestReadsUploadedKey ==
    (out.op = "ingest_retrieve" /\ fileObjects[out.file].present) =>
        \E o \in storage :
            /\ o.key[1] = out.file
            /\ out.obj.key = o.key
            /\ out.obj.error = "none"
            /\ out.obj.body = o.body

(***************************************************************************)
(* Properties of what a search leaves alone.                               *)
(***************************************************************************)
\* C29: a search leaves the Chunk Store, the VectorStoreFile records and the
\* VectorStore records as they were, whatever the query and top_k: the step
\* that produces a search's response changes none of them.
C29_SearchChangesNothing ==
    [][(out = NoOut /\ out'.op = "search") =>
          /\ chunks' = chunks
          /\ vsFileDocs' = vsFileDocs
          /\ records' = records
          /\ vectorStores' = vectorStores]_vars

\* a search has answered from a store that holds chunks, a file document and
\* a row
C29_Witness ==
    /\ out.op = "search"
    /\ out.error = "none"
    /\ Len(out.results) >= 2
    /\ Len(Scan(out.store)) >= 2
    /\ \E d \in vsFileDocs : d.vector_store_id = out.store
    /\ \E f \in Files :
          records[f].present /\ records[f].vector_store_id = out.store

Follows(r, c, order) ==
    IF order = "asc" THEN r.created_at > c.created_at
    ELSE r.created_at < c.created_at

\* data is in the order asked for and within the cursors
ListedWithin(data, order, after, before) ==
    /\ \A i, j \in 1..Len(data) : i < j => Follows(data[j], data[i], order)
    /\ after # NoCursor =>
          \A i \in 1..Len(data) : Follows(data[i], Rows(after)[after], order)
    /\ before # NoCursor =>
          \A i \in 1..Len(data) : Follows(Rows(before)[before], data[i], order)

\* C24: listing vector stores or vector-store files returns the records by
\* creation time, ascending for order = asc and descending for order = desc;
\* with an after cursor only records that follow the cursor record in that
\* order are returned, with a before cursor only records that precede it.
C24_ListOrderedAndCursored ==
    probe.op = "listed" =>
        /\ ListedWithin(probe.files, probe.order, probe.after, probe.before)
        /\ ListedWithin(probe.stores, probe.order, probe.after, probe.before)

====
